---- MODULE Spec2Model ----
(***************************************************************************)
(* getimg: the Client (Dispatcher) of src/src/client.rs, its five request  *)
(* shapes (src/src/request.rs) and the shared response shape               *)
(* (src/src/response.rs), as a state machine.                              *)
(*                                                                         *)
(* Two caller tasks make calls.  Task 1 calls on the Client built by       *)
(* Client::new (instance 1); task 2 calls either on that same instance or  *)
(* on its clone (instance 2).  Every method takes `&mut self`, so a call   *)
(* holds the exclusive borrow of its instance from the moment it starts    *)
(* until it returns.  The HTTP transport (reqwest) and the remote service  *)
(* are the environment: they answer a POST with a transport failure or     *)
(* with a status and a body.                                               *)
(***************************************************************************)
EXTENDS Integers, Sequences, FiniteSets, TLC

VARIABLES client, new_args, borrow, pc, call, request, posts, response, result,
          fs, io, cli, log, exit_code, runs

vars == <<client, new_args, borrow, pc, call, request, posts, response, result,
          fs, io, cli, log, exit_code, runs>>

\* The variables of the utilities and of the command-line front-end.
outside_vars == <<fs, io, cli, log, exit_code, runs>>

(***************************************************************************)
(* Rust values.  f64 and JSON numbers are decimal literals m * 10^e.       *)
(***************************************************************************)
Str(s) == [t |-> "String", s |-> s]

Usize(n) == [t |-> "usize", n |-> n]

F64(m, e) == [t |-> "f64", m |-> m, e |-> e]

None == [t |-> "None"]

Some(v) == [t |-> "Some", v |-> v]

(***************************************************************************)
(* JSON values.  A number literal without fraction or exponent is an       *)
(* integer literal (frac = FALSE); serde_json tells the two apart.         *)
(***************************************************************************)
JStr(s) == [t |-> "str", s |-> s]

JInt(n) == [t |-> "num", frac |-> FALSE, m |-> n, e |-> 0]

JFloat(m, e) == [t |-> "num", frac |-> TRUE, m |-> m, e |-> e]

JNull == [t |-> "null"]

JBool(b) == [t |-> "bool", b |-> b]

JObj(fields) == [t |-> "obj", v |-> fields]

JArr(elems) == [t |-> "arr", v |-> elems]

NotJson(text) == [t |-> "raw", s |-> text]

(***************************************************************************)
(* serde::Serialize as derived for the request structs: one key per struct *)
(* field, under the field's own name (no rename, no skip_serializing_if);  *)
(* Option::None is written as null, Some(x) as x.                          *)
(***************************************************************************)
serialize_plain(v) ==
    CASE v.t = "String" -> JStr(v.s)
      [] v.t = "usize" -> JInt(v.n)
      [] v.t = "f64" -> JFloat(v.m, v.e)

serialize_value(v) ==
    CASE v.t = "None" -> JNull
      [] v.t = "Some" -> serialize_plain(v.v)
      [] OTHER -> serialize_plain(v)

Serialize(body) == JObj([f \in DOMAIN body |-> serialize_value(body[f])])

(***************************************************************************)
(* base64 (the STANDARD engine): text is a string over the alphabet, padded *)
(* with `=` to a multiple of four; bytes are sequences of 0..255.           *)
(***************************************************************************)
Alphabet == "ABCDEFGHIJKLMNOPQRSTUVWXYZabcdefghijklmnopqrstuvwxyz0123456789+/"

\* The symbol of a 6-bit value, and the value of a symbol (-1: not a symbol).
Char(v) == SubSeq(Alphabet, v + 1, v + 1)

Val(c) ==
    IF \E v \in 0..63 : Char(v) = c THEN CHOOSE v \in 0..63 : Char(v) = c ELSE -1

At(text, k) == SubSeq(text, k, k)

\* An encoder that leaves the padding out.
RECURSIVE encode_no_pad(_)
encode_no_pad(b) ==
    CASE Len(b) = 0 -> ""
      [] Len(b) = 1 -> Char(b[1] \div 4) \o Char((b[1] % 4) * 16)
      [] Len(b) = 2 ->
            Char(b[1] \div 4) \o Char((b[1] % 4) * 16 + b[2] \div 16)
                \o Char((b[2] % 16) * 4)
      [] OTHER ->
            Char(b[1] \div 4) \o Char((b[1] % 4) * 16 + b[2] \div 16)
                \o Char((b[2] % 16) * 4 + b[3] \div 64) \o Char(b[3] % 64)
                \o encode_no_pad(SubSeq(b, 4, Len(b)))

RECURSIVE encode(_)
encode(b) ==
    CASE Len(b) = 0 -> ""
      [] Len(b) = 1 ->
            Char(b[1] \div 4) \o Char((b[1] % 4) * 16) \o "=="
      [] Len(b) = 2 ->
            Char(b[1] \div 4) \o Char((b[1] % 4) * 16 + b[2] \div 16)
                \o Char((b[2] % 16) * 4) \o "="
      [] OTHER ->
            Char(b[1] \div 4) \o Char((b[1] % 4) * 16 + b[2] \div 16)
                \o Char((b[2] % 16) * 4 + b[3] \div 64) \o Char(b[3] % 64)
                \o encode(SubSeq(b, 4, Len(b)))

DecodeError == [t |-> "Err", e |-> [kind |-> "Base64"]]

\* The bytes of one group of four symbols; `last` tells whether padding may
\* end it.  Padding elsewhere, a character outside the alphabet and non-zero
\* bits after the last byte are errors.
decode_quad(q, last) ==
    LET a == Val(At(q, 1))
        b == Val(At(q, 2))
        c == Val(At(q, 3))
        d == Val(At(q, 4))
    IN  CASE a < 0 \/ b < 0 -> DecodeError
          [] c >= 0 /\ d >= 0 ->
                [t |-> "Ok",
                 v |-> <<a * 4 + b \div 16, (b % 16) * 16 + c \div 4, (c % 4) * 64 + d>>]
          [] last /\ c >= 0 /\ At(q, 4) = "=" /\ c % 4 = 0 ->
                [t |-> "Ok", v |-> <<a * 4 + b \div 16, (b % 16) * 16 + c \div 4>>]
          [] last /\ At(q, 3) = "=" /\ At(q, 4) = "=" /\ b % 16 = 0 ->
                [t |-> "Ok", v |-> <<a * 4 + b \div 16>>]
          [] OTHER -> DecodeError

RECURSIVE decode(_)
decode(text) ==
    CASE Len(text) = 0 -> [t |-> "Ok", v |-> <<>>]
      [] Len(text) % 4 # 0 -> DecodeError
      [] OTHER ->
            LET head == decode_quad(SubSeq(text, 1, 4), Len(text) = 4)
                rest == decode(SubSeq(text, 5, Len(text)))
            IN  IF head.t = "Ok" /\ rest.t = "Ok"
                THEN [t |-> "Ok", v |-> head.v \o rest.v]
                ELSE DecodeError

(***************************************************************************)
(* Client::new                                                             *)
(***************************************************************************)
BASE_URL == "https://api.getimg.ai/v1"

Client_new(api_key, model) ==
    [api_key |-> api_key, model |-> model, api_url |-> BASE_URL]

Client_clone(self) ==
    [api_key |-> self.api_key, model |-> self.model, api_url |-> self.api_url]

(***************************************************************************)
(* Caller inputs, as the typed values the methods receive.                 *)
(***************************************************************************)
ApiKeys == {"key-A", "key-B"}

Models == {"lcm-realistic-vision-v5-1", "my-model"}

Tasks == {1, 2}

Instances == {1, 2}

\* Task 1 owns instance 1; task 2 has a `&mut` to instance 1 and its own clone.
Handles(t) == IF t = 1 THEN {1} ELSE {1, 2}

PromptOf(t) == IF t = 1 THEN Str("a crab on the beach") ELSE Str("an astronaut on mars")

OptNegativePrompts == {None, Some(Str("blurry"))}

OptSeeds == {None, Some(Usize(512))}

OptStrengths == {None, Some(F64(5, -1))}

Image == Str("aW1n")

MaskImage == Str("bWFzaw==")

(***************************************************************************)
(* The request body each method builds, field for field.                   *)
(***************************************************************************)
TextToImageRequest(self, a) ==
    [prompt |-> a.prompt,
     model |-> Str(self.model),
     negative_prompt |-> a.negative_prompt,
     width |-> a.width,
     height |-> a.height,
     steps |-> a.steps,
     output_format |-> a.output_format,
     seed |-> a.seed]

ImageToImageRequest(self, a) ==
    [model |-> Str(self.model),
     prompt |-> a.prompt,
     negative_prompt |-> a.negative_prompt,
     image |-> a.image_data,
     strength |-> a.strength,
     steps |-> a.steps,
     output_format |-> a.output_format,
     seed |-> Some(a.seed)]

\* A ControlNet body that carries the Client's model.
ControlNetRequest_client_model(self, a) ==
    [controlnet |-> a.controlnet,
     model |-> Str(self.model),
     prompt |-> a.prompt,
     negative_prompt |-> Some(a.negative_prompt),
     image |-> a.image,
     strength |-> a.strength,
     width |-> a.width,
     height |-> a.height,
     steps |-> a.steps,
     guidance |-> a.guidance,
     seed |-> a.seed,
     scheduler |-> a.scheduler,
     output_format |-> a.output_format]

ControlNetRequest(self, a) ==
    [controlnet |-> a.controlnet,
     model |-> Str("stable-diffusion-v1-5"),
     prompt |-> a.prompt,
     negative_prompt |-> Some(a.negative_prompt),
     image |-> a.image,
     strength |-> a.strength,
     width |-> a.width,
     height |-> a.height,
     steps |-> a.steps,
     guidance |-> a.guidance,
     seed |-> a.seed,
     scheduler |-> a.scheduler,
     output_format |-> a.output_format]

\* A Repaint body that lacks the mask.
RepaintImageRequest_no_mask(self, a) ==
    [model |-> Str("stable-diffusion-v1-5-inpainting"),
     prompt |-> a.prompt,
     negative_prompt |-> a.negative_prompt,
     image |-> a.image_data,
     strength |-> a.strength,
     width |-> a.width,
     height |-> a.height,
     steps |-> a.steps,
     guidance |-> a.guidance,
     seed |-> a.seed,
     scheduler |-> a.scheduler,
     output_format |-> a.output_format]

RepaintImageRequest(self, a) ==
    [model |-> Str("stable-diffusion-v1-5-inpainting"),
     prompt |-> a.prompt,
     negative_prompt |-> a.negative_prompt,
     image |-> a.image_data,
     mask_image |-> a.mask_image_data,
     strength |-> a.strength,
     width |-> a.width,
     height |-> a.height,
     steps |-> a.steps,
     guidance |-> a.guidance,
     seed |-> a.seed,
     scheduler |-> a.scheduler,
     output_format |-> a.output_format]

EditImageRequest(self, a) ==
    [model |-> Str("instruct-pix2pix"),
     prompt |-> a.prompt,
     negative_prompt |-> a.negative_prompt,
     image |-> a.image_data,
     image_guidance |-> a.image_guidance,
     steps |-> a.steps,
     guidance |-> a.guidance,
     seed |-> a.seed,
     scheduler |-> a.scheduler,
     output_format |-> a.output_format]

(***************************************************************************)
(* The URL and the headers of each method's POST.                          *)
(***************************************************************************)
text_to_image_url(self) == self.api_url \o "/latent-consistency/text-to-image"

image_to_image_url(self) == self.api_url \o "/latent-consistency/image-to-image"

controlnet_url(self) == self.api_url \o "/stable-diffusion/controlnet"

repaint_url(self) == self.api_url \o "/stable-diffusion/inpaint"

\* An Edit call posted to the Repaint path.
edit_url_inpaint(self) == self.api_url \o "/stable-diffusion/inpaint"

edit_url(self) == self.api_url \o "/stable-diffusion/instruct"

text_to_image_headers(self) ==
    ("Accept" :> "application/json")
        @@ ("Authorization" :> ("Bearer " \o self.api_key))
        @@ ("Content-Type" :> "application/json")

\* Headers whose Authorization is the bare key.
image_to_image_headers_bare_key(self) ==
    ("Accept" :> "application/json")
        @@ ("Authorization" :> self.api_key)
        @@ ("Content-Type" :> "application/json")

image_to_image_headers(self) ==
    ("Accept" :> "application/json")
        @@ ("Authorization" :> ("Bearer " \o self.api_key))
        @@ ("Content-Type" :> "application/json")

controlnet_headers(self) ==
    ("Accept" :> "application/json")
        @@ ("Authorization" :> ("Bearer " \o self.api_key))
        @@ ("Content-Type" :> "application/json")

repaint_headers(self) ==
    ("Accept" :> "application/json")
        @@ ("Authorization" :> ("Bearer " \o self.api_key))
        @@ ("Content-Type" :> "application/json")

edit_headers(self) ==
    ("Accept" :> "application/json")
        @@ ("Authorization" :> ("Bearer " \o self.api_key))
        @@ ("Content-Type" :> "application/json")

(***************************************************************************)
(* Results.  A reqwest::Error carries its kind; status() is Some only for  *)
(* an error made by error_for_status, and no reqwest::Error holds the      *)
(* response body.                                                          *)
(***************************************************************************)
Ok(v) == [t |-> "Ok", v |-> v]

Err(e) == [t |-> "Err", e |-> e]

reqwest_Error(kind) == [kind |-> kind, status |-> None, body |-> None]

ToImageResponse(image, seed, cost) == [image |-> image, seed |-> seed, cost |-> cost]

(***************************************************************************)
(* serde::Deserialize as derived for ToImageResponse, fed by serde_json.   *)
(* image: String is required; seed: Option<usize> and cost: Option<f64>    *)
(* are None when missing or null; unknown keys are skipped.  A usize       *)
(* accepts only a non-negative integer literal, an f64 any number.  A JSON *)
(* array of exactly three elements is read positionally.                   *)
(***************************************************************************)
de_String(j) == IF j.t = "str" THEN Ok(j.s) ELSE Err("invalid type")

de_Option_usize(j) ==
    CASE j.t = "null" -> Ok(None)
      [] j.t = "num" /\ ~j.frac /\ j.m >= 0 -> Ok(Some(Usize(j.m)))
      [] OTHER -> Err("invalid type")

de_Option_f64(j) ==
    CASE j.t = "null" -> Ok(None)
      [] j.t = "num" -> Ok(Some(F64(j.m, j.e)))
      [] OTHER -> Err("invalid type")

de_fields(image, seed, cost) ==
    IF image.t = "Ok" /\ seed.t = "Ok" /\ cost.t = "Ok"
    THEN Ok(ToImageResponse(image.v, seed.v, cost.v))
    ELSE Err(reqwest_Error("Decode"))

\* A visitor that rejects keys it does not know (deny_unknown_fields).
visit_map_deny_unknown(o) ==
    IF "image" \notin DOMAIN o \/ DOMAIN o \ {"image", "seed", "cost"} # {}
    THEN Err(reqwest_Error("Decode"))
    ELSE de_fields(de_String(o["image"]),
                   IF "seed" \in DOMAIN o THEN de_Option_usize(o["seed"]) ELSE Ok(None),
                   IF "cost" \in DOMAIN o THEN de_Option_f64(o["cost"]) ELSE Ok(None))

visit_map(o) ==
    IF "image" \notin DOMAIN o
    THEN Err(reqwest_Error("Decode"))
    ELSE de_fields(de_String(o["image"]),
                   IF "seed" \in DOMAIN o THEN de_Option_usize(o["seed"]) ELSE Ok(None),
                   IF "cost" \in DOMAIN o THEN de_Option_f64(o["cost"]) ELSE Ok(None))

visit_seq(a) ==
    IF Len(a) # 3
    THEN Err(reqwest_Error("Decode"))
    ELSE de_fields(de_String(a[1]), de_Option_usize(a[2]), de_Option_f64(a[3]))

Deserialize(body) ==
    CASE body.t = "obj" -> visit_map(body.v)
      [] body.t = "arr" -> visit_seq(body.v)
      [] OTHER -> Err(reqwest_Error("Decode"))

(***************************************************************************)
(* What the service may answer: a status and a body.                       *)
(***************************************************************************)
SuccessBody == JObj([image |-> JStr("QQ=="), seed |-> JInt(512), cost |-> JFloat(2, -3)])

ExtraFieldBody ==
    JObj([image |-> JStr("QQ=="), seed |-> JInt(7), nsfw |-> JBool(FALSE)])

NullsBody == JObj([image |-> JStr("Qg=="), seed |-> JNull, cost |-> JNull])

ErrorBody == JObj([error |-> JStr("unauthorized")])

ImageNotStringBody == JObj([image |-> JInt(5)])

NegativeSeedBody == JObj([image |-> JStr("QQ=="), seed |-> JInt(-1)])

StringCostBody == JObj([image |-> JStr("QQ=="), cost |-> JStr("free")])

ArrayBody == JArr(<<JStr("QQ=="), JInt(512), JFloat(2, -3)>>)

HtmlBody == NotJson("<html>Bad Gateway</html>")

\* A body whose image is a string that is not base64.
NotBase64ImageBody == JObj([image |-> JStr("QQ=")])

\* A body of the success shape that comes with status 500.
ServerErrorStatusBody == JObj([image |-> JStr("NTAw"), seed |-> JInt(500)])

Replies ==
    {[status |-> 200, body |-> b] :
        b \in {SuccessBody, ExtraFieldBody, NullsBody, ErrorBody, ImageNotStringBody,
               NegativeSeedBody, StringCostBody, ArrayBody, NotBase64ImageBody}}
    \cup {[status |-> 401, body |-> ErrorBody],
          [status |-> 401, body |-> SuccessBody],
          [status |-> 500, body |-> ServerErrorStatusBody],
          [status |-> 502, body |-> HtmlBody]}

(***************************************************************************)
(* State.                                                                  *)
(*   client[i]    the fields of Client instance i                          *)
(*   new_args     the arguments Client::new was called with                *)
(*   borrow[i]    the task whose call holds `&mut` of instance i, 0: none  *)
(*   pc[t]        "idle", "send" (awaiting send()), "json" (awaiting       *)
(*                json()); a task that is idle again still holds the       *)
(*                result of its last call                                  *)
(*   call[t]      the method, instance and arguments of the task's call;   *)
(*                the arguments live until send() has consumed the         *)
(*                request, the borrow of the instance until the return     *)
(*   request[t]   the POST that is with the transport, until it resolves   *)
(*   posts[t]     how many POSTs that call has issued                      *)
(*   response[t]  the reply send() resolved to, until json() consumes it   *)
(*   result[t]    what the call returned                                   *)
(***************************************************************************)
NoCall == [op |-> "none"]

NoRequest == [method |-> "none"]

Moved == [moved |-> TRUE]

NoResponse == [status |-> 0]

NoResult == [t |-> "none"]

\* The value of the variables a specification does not use.
NoFiles == [p \in {} |-> <<>>]

NoIo == [fn |-> "none"]

NoProcess == [pc |-> "none"]

OutsideUnused ==
    /\ fs = NoFiles
    /\ io = NoIo
    /\ cli = NoProcess
    /\ log = <<>>
    /\ exit_code = 0
    /\ runs = 0

Init ==
    /\ \E api_key \in ApiKeys, model \in Models :
          /\ new_args = [api_key |-> api_key, model |-> model]
          /\ client = [i \in Instances |->
                          IF i = 1 THEN Client_new(api_key, model)
                          ELSE Client_clone(Client_new(api_key, model))]
    /\ borrow = [i \in Instances |-> 0]
    /\ pc = [t \in Tasks |-> "idle"]
    /\ call = [t \in Tasks |-> NoCall]
    /\ request = [t \in Tasks |-> NoRequest]
    /\ posts = [t \in Tasks |-> 0]
    /\ response = [t \in Tasks |-> NoResponse]
    /\ result = [t \in Tasks |-> NoResult]
    /\ OutsideUnused

\* A method can start on an instance only while no other call borrows it.
CanCall(t, i) == pc[t] = "idle" /\ borrow[i] = 0

\* RequestBuilder::send: the request goes out, the call suspends.
send(t, i, op, args, url, headers, body) ==
    /\ borrow' = [borrow EXCEPT ![i] = t]
    /\ call' = [call EXCEPT ![t] = [op |-> op, self |-> i, args |-> args]]
    /\ request' = [request EXCEPT ![t] =
                      [method |-> "POST", url |-> url, headers |-> headers,
                       body |-> Serialize(body)]]
    /\ posts' = [posts EXCEPT ![t] = 1]
    /\ response' = [response EXCEPT ![t] = NoResponse]
    /\ result' = [result EXCEPT ![t] = NoResult]
    /\ pc' = [pc EXCEPT ![t] = "send"]

\* The five methods, called by task t on instance i with the arguments a.
Client_generate_image_from_text(t, i, a) ==
    /\ CanCall(t, i)
    /\ send(t, i, "TextToImage", a, text_to_image_url(client[i]), text_to_image_headers(client[i]),
            TextToImageRequest(client[i], a))
    /\ UNCHANGED <<client, new_args>>

Client_generate_image_from_image(t, i, a) ==
    /\ CanCall(t, i)
    /\ send(t, i, "ImageToImage", a, image_to_image_url(client[i]), image_to_image_headers(client[i]),
            ImageToImageRequest(client[i], a))
    /\ UNCHANGED <<client, new_args>>

Client_generate_image_using_controlnet(t, i, a) ==
    /\ CanCall(t, i)
    /\ send(t, i, "ControlNet", a, controlnet_url(client[i]), controlnet_headers(client[i]),
            ControlNetRequest(client[i], a))
    /\ UNCHANGED <<client, new_args>>

Client_generate_repainted_image(t, i, a) ==
    /\ CanCall(t, i)
    /\ send(t, i, "Repaint", a, repaint_url(client[i]), repaint_headers(client[i]),
            RepaintImageRequest(client[i], a))
    /\ UNCHANGED <<client, new_args>>

Client_generate_edited_image(t, i, a) ==
    /\ CanCall(t, i)
    /\ send(t, i, "Edit", a, edit_url(client[i]), edit_headers(client[i]),
            EditImageRequest(client[i], a))
    /\ UNCHANGED <<client, new_args>>

generate_image_from_text(t) ==
    \E i \in Handles(t), negative_prompt \in OptNegativePrompts, seed \in OptSeeds :
        LET a == [prompt |-> PromptOf(t), width |-> Usize(1024), height |-> Usize(512),
                  steps |-> Usize(4), output_format |-> Str("jpeg"),
                  negative_prompt |-> negative_prompt, seed |-> seed]
        IN  Client_generate_image_from_text(t, i, a)

generate_image_from_image(t) ==
    \E i \in Handles(t), negative_prompt \in OptNegativePrompts,
       strength \in OptStrengths :
        LET a == [prompt |-> PromptOf(t), image_data |-> Image, steps |-> Usize(4),
                  seed |-> Usize(512), output_format |-> Str("jpeg"),
                  negative_prompt |-> negative_prompt, strength |-> strength]
        IN  Client_generate_image_from_image(t, i, a)

\* A ControlNet call that stores its fixed model in the Client.
generate_image_using_controlnet_sets_model(t) ==
    \E i \in Handles(t) :
        LET a == [controlnet |-> Str("softedge-1.1"), prompt |-> PromptOf(t),
                  negative_prompt |-> Str("blurry"), image |-> Image,
                  strength |-> F64(10, -1), width |-> Usize(1024),
                  height |-> Usize(512), steps |-> Usize(25),
                  guidance |-> F64(75, -1), seed |-> Usize(512),
                  scheduler |-> Str("euler"), output_format |-> Str("png")]
        IN  /\ CanCall(t, i)
            /\ send(t, i, "ControlNet", a, controlnet_url(client[i]),
                    controlnet_headers(client[i]),
                    ControlNetRequest(client[i], a))
            /\ client' = [client EXCEPT ![i].model = "stable-diffusion-v1-5"]
            /\ UNCHANGED new_args

generate_image_using_controlnet(t) ==
    \E i \in Handles(t) :
        LET a == [controlnet |-> Str("softedge-1.1"), prompt |-> PromptOf(t),
                  negative_prompt |-> Str("blurry"), image |-> Image,
                  strength |-> F64(10, -1), width |-> Usize(1024),
                  height |-> Usize(512), steps |-> Usize(25),
                  guidance |-> F64(75, -1), seed |-> Usize(512),
                  scheduler |-> Str("euler"), output_format |-> Str("png")]
        IN  Client_generate_image_using_controlnet(t, i, a)

generate_repainted_image(t) ==
    \E i \in Handles(t), negative_prompt \in OptNegativePrompts,
       strength \in OptStrengths :
        LET a == [prompt |-> PromptOf(t), negative_prompt |-> negative_prompt,
                  image_data |-> Image, mask_image_data |-> MaskImage,
                  strength |-> strength, width |-> Usize(1024),
                  height |-> Usize(512), steps |-> Usize(25),
                  guidance |-> F64(75, -1), seed |-> Usize(512),
                  scheduler |-> Str("euler"), output_format |-> Str("png")]
        IN  Client_generate_repainted_image(t, i, a)

generate_edited_image(t) ==
    \E i \in Handles(t), negative_prompt \in OptNegativePrompts :
        LET a == [prompt |-> PromptOf(t), negative_prompt |-> negative_prompt,
                  image_data |-> Image, image_guidance |-> F64(15, -1),
                  steps |-> Usize(25), guidance |-> F64(75, -1), seed |-> Usize(54),
                  scheduler |-> Str("ddim"), output_format |-> Str("png")]
        IN  Client_generate_edited_image(t, i, a)

\* The call returns r to its caller: the `&mut self` borrow ends.
return(t, r) ==
    /\ result' = [result EXCEPT ![t] = r]
    /\ borrow' = [borrow EXCEPT ![call[t].self] = 0]
    /\ call' = [call EXCEPT ![t] = [op |-> call[t].op, self |-> 0, args |-> Moved]]
    /\ request' = [request EXCEPT ![t] = NoRequest]
    /\ pc' = [pc EXCEPT ![t] = "idle"]

\* A send that is tried again after a transport failure.
send_await_retry(t) ==
    /\ pc[t] = "send"
    /\ \/ /\ posts' = [posts EXCEPT ![t] = posts[t] + 1]
          /\ UNCHANGED <<borrow, call, request, response, result, pc>>
       \/ \E reply \in Replies :
             /\ response' = [response EXCEPT ![t] = reply]
             /\ pc' = [pc EXCEPT ![t] = "json"]
             /\ call' = [call EXCEPT ![t].args = Moved]
             /\ request' = [request EXCEPT ![t] = NoRequest]
             /\ UNCHANGED <<borrow, result, posts>>
    /\ UNCHANGED <<client, new_args>>

\* `.send().await?`: the transport fails and `?` returns the error, or the
\* reply's status line and headers arrive, whatever the status.
send_await(t) ==
    /\ pc[t] = "send"
    /\ \/ /\ return(t, Err(reqwest_Error("Request")))
          /\ UNCHANGED response
       \/ \E reply \in Replies :
             /\ response' = [response EXCEPT ![t] = reply]
             /\ pc' = [pc EXCEPT ![t] = "json"]
             /\ call' = [call EXCEPT ![t].args = Moved]
             /\ request' = [request EXCEPT ![t] = NoRequest]
             /\ UNCHANGED <<borrow, result>>
    /\ UNCHANGED <<client, new_args, posts>>

\* A json() that is preceded by error_for_status().
json_await_error_for_status(t) ==
    /\ pc[t] = "json"
    /\ \/ return(t, Err(reqwest_Error("Body")))
       \/ IF response[t].status \in 200..299
          THEN return(t, Deserialize(response[t].body))
          ELSE return(t, Err(reqwest_Error("Status")))
    /\ response' = [response EXCEPT ![t] = NoResponse]
    /\ UNCHANGED <<client, new_args, posts>>

\* `response.json::<ToImageResponse>().await?` then `Ok(result)`: reading the
\* body fails, or the body is deserialized.
json_await(t) ==
    /\ pc[t] = "json"
    /\ \/ return(t, Err(reqwest_Error("Body")))
       \/ return(t, Deserialize(response[t].body))
    /\ response' = [response EXCEPT ![t] = NoResponse]
    /\ UNCHANGED <<client, new_args, posts>>

Next ==
    /\ \E t \in Tasks :
          \/ generate_image_from_text(t)
          \/ generate_image_from_image(t)
          \/ generate_image_using_controlnet(t)
          \/ generate_repainted_image(t)
          \/ generate_edited_image(t)
          \/ send_await(t)
          \/ json_await(t)
    /\ UNCHANGED outside_vars

Spec == Init /\ [][Next]_vars

(***************************************************************************)
(* Properties.                                                             *)
(***************************************************************************)
InFlight(t) == pc[t] # "idle"

Sending(t) == pc[t] = "send"

Returned(t) == pc[t] = "idle" /\ call[t].op # "none"

\* C1: from the moment a call has started until it has returned, with a result
\* or with an error, the transport has seen exactly one POST of that call.
C1_OnePostPerCall == \A t \in Tasks : call[t].op # "none" => posts[t] = 1

\* A call ended by a transport failure and a call ended by an unparsable reply.
C1_Witness ==
    \E t, u \in Tasks :
        /\ Returned(t) /\ result[t] = Err(reqwest_Error("Request")) /\ posts[t] = 1
        /\ Returned(u) /\ result[u] = Err(reqwest_Error("Decode")) /\ posts[u] = 1

\* C5: the payload's model is the fixed identifier for ControlNet, Repaint and
\* Edit, and the model the Client was constructed with for ImageToImage and
\* TextToImage.
C5_ModelField ==
    \A t \in Tasks :
        Sending(t) =>
            request[t].body.v["model"] =
                CASE call[t].op = "ControlNet" -> JStr("stable-diffusion-v1-5")
                  [] call[t].op = "Repaint" -> JStr("stable-diffusion-v1-5-inpainting")
                  [] call[t].op = "Edit" -> JStr("instruct-pix2pix")
                  [] call[t].op \in {"ImageToImage", "TextToImage"} ->
                        JStr(new_args.model)

\* A ControlNet request and a TextToImage request, both out.
C5_Witness ==
    \E t, u \in Tasks :
        /\ Sending(t) /\ call[t].op = "ControlNet"
        /\ Sending(u) /\ call[u].op = "TextToImage"
        /\ request[t].body.v["model"] # request[u].body.v["model"]

\* C6: each method posts to its own path under https://api.getimg.ai/v1.
C6_FixedPaths ==
    \A t \in Tasks :
        Sending(t) =>
            /\ request[t].method = "POST"
            /\ request[t].url =
                CASE call[t].op = "TextToImage" ->
                        "https://api.getimg.ai/v1/latent-consistency/text-to-image"
                  [] call[t].op = "ImageToImage" ->
                        "https://api.getimg.ai/v1/latent-consistency/image-to-image"
                  [] call[t].op = "ControlNet" ->
                        "https://api.getimg.ai/v1/stable-diffusion/controlnet"
                  [] call[t].op = "Repaint" ->
                        "https://api.getimg.ai/v1/stable-diffusion/inpaint"
                  [] call[t].op = "Edit" ->
                        "https://api.getimg.ai/v1/stable-diffusion/instruct"

\* A Repaint request and an Edit request, both out.
C6_Witness ==
    \E t, u \in Tasks :
        /\ Sending(t) /\ call[t].op = "Repaint"
        /\ Sending(u) /\ call[u].op = "Edit"

\* C7: every request carries Accept: application/json, Content-Type:
\* application/json and Authorization: Bearer <the key given to Client::new>.
C7_Headers ==
    \A t \in Tasks :
        Sending(t) =>
            /\ {"Accept", "Content-Type", "Authorization"} \subseteq DOMAIN request[t].headers
            /\ request[t].headers["Accept"] = "application/json"
            /\ request[t].headers["Content-Type"] = "application/json"
            /\ new_args.api_key = "key-A" =>
                   request[t].headers["Authorization"] = "Bearer key-A"
            /\ new_args.api_key = "key-B" =>
                   request[t].headers["Authorization"] = "Bearer key-B"

\* An ImageToImage request on the clone while the other task has a request out.
C7_Witness ==
    \E t, u \in Tasks :
        /\ Sending(t) /\ call[t].op = "ImageToImage" /\ call[t].self = 2
        /\ Sending(u) /\ call[u].self = 1
        /\ new_args.api_key = "key-B"

\* C10: whatever calls have been made, every Client still holds the api_key
\* and model given to Client::new and the base URL.
C10_FieldsUnchanged ==
    \A i \in Instances :
        client[i] = [api_key |-> new_args.api_key, model |-> new_args.model,
                     api_url |-> "https://api.getimg.ai/v1"]

\* One call has returned a result, another an error.
C10_Witness ==
    \E t, u \in Tasks :
        /\ Returned(t) /\ result[t].t = "Ok" /\ call[t].op = "ControlNet"
        /\ Returned(u) /\ result[u].t = "Err"

\* The step in which task t's call returns after the whole body has arrived.
BodyDelivered(t) ==
    /\ pc[t] = "json"
    /\ pc'[t] = "idle"
    /\ result'[t] # Err(reqwest_Error("Body"))

\* C2: a reply with a non-success status and an error body makes the call
\* return an error that contains the reply's status and the reply's body.
C2_StatusErrorCarriesStatusAndBody ==
    [][\A t \in Tasks :
          (/\ BodyDelivered(t)
           /\ response[t].status \notin 200..299
           /\ response[t].body = ErrorBody)
          => /\ result'[t].t = "Err"
             /\ result'[t].e.status = Some(response[t].status)
             /\ result'[t].e.body = Some(response[t].body)]_vars

\* C3: an optional parameter passed as None is no key of the payload.
C3_NoneIsOmitted ==
    \A t \in Tasks :
        Sending(t) =>
            \A f \in {"negative_prompt", "seed", "strength"} \cap DOMAIN call[t].args :
                call[t].args[f] = None => f \notin DOMAIN request[t].body.v

\* The data model's field lists as the specification gives them: the fields
\* every payload has, and the ones marked `?`.
SpecRequired(op) ==
    CASE op = "TextToImage" ->
            {"prompt", "width", "height", "steps", "output_format"}
      [] op = "ImageToImage" ->
            {"model", "prompt", "image", "steps", "output_format"}
      [] op = "ControlNet" ->
            {"controlnet_type", "model", "prompt", "image", "strength", "width",
             "height", "steps", "guidance", "seed", "scheduler", "output_format"}
      [] op = "Repaint" ->
            {"model", "prompt", "image", "mask_image", "width", "height", "steps",
             "guidance", "seed", "scheduler", "output_format"}
      [] op = "Edit" ->
            {"model", "prompt", "image", "image_guidance", "steps", "guidance",
             "seed", "scheduler", "output_format"}

SpecOptional(op) ==
    CASE op = "TextToImage" -> {"negative_prompt", "seed"}
      [] op = "ImageToImage" -> {"negative_prompt", "strength", "seed"}
      [] op = "ControlNet" -> {"negative_prompt"}
      [] op = "Repaint" -> {"negative_prompt", "strength"}
      [] op = "Edit" -> {"negative_prompt"}

\* The same lists with `model` among TextToImage's fields and ControlNet's
\* first field named `controlnet`.
AmendedRequired(op) ==
    CASE op = "TextToImage" -> SpecRequired(op) \cup {"model"}
      [] op = "ControlNet" ->
            (SpecRequired(op) \ {"controlnet_type"}) \cup {"controlnet"}
      [] OTHER -> SpecRequired(op)

\* C4 as stated: the payload's keys are the listed fields, a `?` field being
\* allowed to be missing.
C4_FieldSetAsListed ==
    \A t \in Tasks :
        Sending(t) =>
            /\ SpecRequired(call[t].op) \subseteq DOMAIN request[t].body.v
            /\ DOMAIN request[t].body.v \subseteq
                   SpecRequired(call[t].op) \cup SpecOptional(call[t].op)

\* C4, amended: the payload's keys are the listed fields, with `model` also a
\* field of TextToImage and `controlnet` the name of ControlNet's type field.
C4_FieldSetAmended ==
    \A t \in Tasks :
        Sending(t) =>
            /\ AmendedRequired(call[t].op) \subseteq DOMAIN request[t].body.v
            /\ DOMAIN request[t].body.v \subseteq
                   AmendedRequired(call[t].op) \cup SpecOptional(call[t].op)

\* A TextToImage request and a ControlNet request, both out.
C4_Witness ==
    \E t, u \in Tasks :
        /\ Sending(t) /\ call[t].op = "TextToImage"
        /\ "model" \in DOMAIN request[t].body.v
        /\ Sending(u) /\ call[u].op = "ControlNet"
        /\ "controlnet" \in DOMAIN request[u].body.v

\* A body that is a JSON object with a string `image`.
HasStringImage(body) ==
    /\ body.t = "obj"
    /\ "image" \in DOMAIN body.v
    /\ body.v["image"].t = "str"

Present(o, f) == f \in DOMAIN o /\ o[f].t # "null"

\* The Option `got` holds what field f of object o holds, or nothing when o has
\* no f (or a null f).
SameNumber(o, f, got) ==
    IF Present(o, f)
    THEN /\ o[f].t = "num"
         /\ got.t = "Some"
         /\ IF got.v.t = "usize"
            THEN <<o[f].m, o[f].e>> = <<got.v.n, 0>>
            ELSE <<o[f].m, o[f].e>> = <<got.v.m, got.v.e>>
    ELSE got = None

ResultMatchesBody(r, o) ==
    /\ r.t = "Ok"
    /\ r.v.image = o["image"].s
    /\ SameNumber(o, "seed", r.v.seed)
    /\ SameNumber(o, "cost", r.v.cost)

\* C8 as stated: every reply body that is an object with a string image gives a
\* result with the body's image, seed and cost.
C8_ResultFromAnyImageBody ==
    [][\A t \in Tasks :
          (BodyDelivered(t) /\ HasStringImage(response[t].body))
          => ResultMatchesBody(result'[t], response[t].body.v)]_vars

\* seed is missing, null or a non-negative integer literal; cost is missing,
\* null or a number.
WellTypedSeedAndCost(o) ==
    /\ Present(o, "seed") => (o["seed"].t = "num" /\ ~o["seed"].frac /\ o["seed"].m >= 0)
    /\ Present(o, "cost") => o["cost"].t = "num"

\* C8, amended: the same for the bodies whose seed, if any, is a non-negative
\* integer and whose cost, if any, is a number; other keys make no difference.
C8_ResultFromWellTypedBody ==
    [][\A t \in Tasks :
          (/\ BodyDelivered(t)
           /\ HasStringImage(response[t].body)
           /\ WellTypedSeedAndCost(response[t].body.v))
          => ResultMatchesBody(result'[t], response[t].body.v)]_vars

\* The results of {"image":"QQ==","seed":512,"cost":0.002} and of the body with
\* an unknown key and no cost.
C8_Witness ==
    \E t, u \in Tasks :
        /\ Returned(t)
        /\ result[t] = Ok(ToImageResponse("QQ==", Some(Usize(512)), Some(F64(2, -3))))
        /\ Returned(u)
        /\ result[u] = Ok(ToImageResponse("QQ==", Some(Usize(7)), None))

\* C9: while a call is in flight on an instance, another task can start a call
\* on that same instance, so that the two run concurrently.
C9_ConcurrentOnSameInstance ==
    \A t, u \in Tasks :
        (t # u /\ InFlight(u) /\ pc[t] = "idle")
        => (call[u].self \in Handles(t) => CanCall(t, call[u].self))

(***************************************************************************)
(* The utilities: save_image and load_and_encode_image, on a file system   *)
(* that maps a path to the bytes of the file there, or to Absent.          *)
(*                                                                         *)
(* io is the frame of the last utility call: its arguments and its return  *)
(* value.  log is what the process has done that can be seen from outside, *)
(* in order: lines on stdout and stderr, files opened for reading, files   *)
(* created, requests sent.                                                 *)
(***************************************************************************)
Absent == [t |-> "Absent"]

File(bytes) == [t |-> "File", bytes |-> bytes]

io_Error(os) == [kind |-> "Io", os |-> os]

Event(ch, text) == [ch |-> ch, text |-> text]

\* Bounds of the file contents the utilities are run on.
MaxFileLen == 3

ByteVals == {0, 65, 127, 128, 255}

RECURSIVE BytesUpTo(_)
BytesUpTo(n) ==
    IF n = 0 THEN {<<>>}
    ELSE LET shorter == BytesUpTo(n - 1)
         IN  shorter \cup {Append(b, x) : b \in {c \in shorter : Len(c) = n - 1}, x \in ByteVals}

UtilPaths == {"in.png", "out.png"}

\* Texts that are not base64: a character outside the alphabet, a length that
\* is not a multiple of four, padding in the wrong place, bits after the last
\* byte.
InvalidTexts == {"Q*==", "QQ=", "=QQQ", "QR==", "QUJD!A=="}

\* load_and_encode_image: File::open fails when there is no file; otherwise
\* the whole file is read and encoded.  The file system is left alone.
load_and_encode_image(image_path) ==
    /\ io' = [fn |-> "load_and_encode_image",
              image_path |-> image_path,
              ret |-> IF fs[image_path].t = "File"
                      THEN Ok(encode(fs[image_path].bytes))
                      ELSE Err(io_Error("NotFound"))]
    /\ log' = Append(log, Event("open", image_path))
    /\ fs' = fs

save_image_returns(image_data, filename, ret) ==
    io' = [fn |-> "save_image", image_data |-> image_data,
           filename |-> filename, ret |-> ret]

save_image_create_first(image_data, filename) ==
    LET decoded_image_data == decode(image_data)
    IN  /\ fs' = [fs EXCEPT ![filename] = File(<<>>)]
        /\ log' = Append(log, Event("create", filename))
        /\ save_image_returns(image_data, filename, decoded_image_data)

\* save_image: decode first; then File::create, which truncates and which the
\* system may refuse; then write_all, which the system may cut short; then
\* the line on stdout.
save_image(image_data, filename) ==
    LET decoded_image_data == decode(image_data)
    IN  \/ /\ decoded_image_data.t = "Err"
           /\ save_image_returns(image_data, filename, decoded_image_data)
           /\ UNCHANGED <<fs, log>>
        \/ /\ decoded_image_data.t = "Ok"
           /\ save_image_returns(image_data, filename, Err(io_Error("PermissionDenied")))
           /\ UNCHANGED <<fs, log>>
        \/ /\ decoded_image_data.t = "Ok"
           /\ \E n \in 0..(Len(decoded_image_data.v) - 1) :
                 fs' = [fs EXCEPT ![filename] = File(SubSeq(decoded_image_data.v, 1, n))]
           /\ log' = Append(log, Event("create", filename))
           /\ save_image_returns(image_data, filename, Err(io_Error("StorageFull")))
        \/ /\ decoded_image_data.t = "Ok"
           /\ fs' = [fs EXCEPT ![filename] = File(decoded_image_data.v)]
           /\ log' = log \o <<Event("create", filename),
                              Event("stdout", "Image saved as: " \o filename)>>
           /\ save_image_returns(image_data, filename, Ok("()"))

(***************************************************************************)
(* The utilities on their own: a file is loaded and encoded, then a text   *)
(* is saved: the text just loaded, or any other.                           *)
(***************************************************************************)
NoClient == [api_key |-> "", model |-> "", api_url |-> ""]

DispatcherUnused ==
    /\ new_args = [api_key |-> "", model |-> ""]
    /\ client = [i \in Instances |-> NoClient]
    /\ borrow = [i \in Instances |-> 0]
    /\ pc = [t \in Tasks |-> "idle"]
    /\ call = [t \in Tasks |-> NoCall]
    /\ request = [t \in Tasks |-> NoRequest]
    /\ posts = [t \in Tasks |-> 0]
    /\ response = [t \in Tasks |-> NoResponse]
    /\ result = [t \in Tasks |-> NoResult]

dispatcher_vars == <<client, new_args, borrow, pc, call, request, posts, response, result>>

InitUtils ==
    /\ DispatcherUnused
    /\ \E content \in {Absent} \cup {File(b) : b \in BytesUpTo(MaxFileLen)},
          old \in {Absent, File(<<1, 2, 3, 4, 5>>)} :
          fs = [p \in UtilPaths |-> IF p = "in.png" THEN content ELSE old]
    /\ io = NoIo
    /\ cli = NoProcess
    /\ log = <<>>
    /\ exit_code = 0
    /\ runs = 0

call_load_and_encode_image ==
    /\ io.fn = "none"
    /\ load_and_encode_image("in.png")
    /\ UNCHANGED <<dispatcher_vars, cli, exit_code, runs>>

call_save_image ==
    /\ io.fn = "load_and_encode_image"
    /\ \E image_data \in {"QQ=="} \cup InvalidTexts
                           \cup (IF io.ret.t = "Ok" THEN {io.ret.v} ELSE {}),
          filename \in UtilPaths :
          save_image(image_data, filename)
    /\ UNCHANGED <<dispatcher_vars, cli, exit_code, runs>>

NextUtils == call_load_and_encode_image \/ call_save_image

SpecUtils == InitUtils /\ [][NextUtils]_vars

Loaded == io.fn = "load_and_encode_image" /\ io.ret.t = "Ok"

Saved == io.fn = "save_image"

\* C11: for every byte sequence b, the empty one included (b ranges over the
\* contents of the file that was loaded), decoding the text that encoding b
\* produced gives b back; and when save_image is given the text that
\* load_and_encode_image returned for a file and succeeds, the file it wrote
\* holds the bytes of the file that was loaded.
C11_RoundTrip ==
    /\ [](Loaded => decode(io.ret.v) = Ok(fs[io.image_path].bytes))
    /\ [][(Loaded /\ Saved' /\ io'.image_data = io.ret.v /\ io'.ret.t = "Ok")
             => fs'[io'.filename] = fs[io.image_path]]_vars

C11_Witness ==
    /\ Saved
    /\ io.ret.t = "Ok"
    /\ io.filename = "out.png"
    /\ fs["in.png"].t = "File"
    /\ Len(fs["in.png"].bytes) = 2
    /\ io.image_data = encode(fs["in.png"].bytes)
    /\ fs["out.png"] = fs["in.png"]

\* C12: when the text given to save_image is not valid base64, save_image
\* returns the decode error and writes nothing: no file is created, none is
\* truncated, and no line is printed.
C12_InvalidTextWritesNothing ==
    [][(Saved' /\ ~Saved /\ decode(io'.image_data).t = "Err")
          => /\ io'.ret = DecodeError
             /\ fs' = fs
             /\ log' = log]_vars

C12_Witness ==
    /\ Saved
    /\ io.image_data \in InvalidTexts
    /\ io.filename = "out.png"
    /\ io.ret = DecodeError
    /\ fs["out.png"] = File(<<1, 2, 3, 4, 5>>)

(***************************************************************************)
(* main, lines 19..31: the API key and the model come from the flag when   *)
(* it is given, else from the environment.  env::var gives Err both for a  *)
(* variable that is not set and for one whose value is not valid Unicode.  *)
(* impl fmt::Debug for Client: debug_struct with the model field alone.    *)
(***************************************************************************)
DEFAULT_MODEL == "lcm-realistic-vision-v5-1"

Unset == [t |-> "Unset"]

Set(v) == [t |-> "Set", v |-> v]

NotUnicode == [t |-> "NotUnicode"]

env_var(e) == IF e.t = "Set" THEN Ok(e.v) ELSE Err([kind |-> "Var", var |-> e.t])

unwrap_or(r, default) == IF r.t = "Ok" THEN r.v ELSE default

resolve_api_key_env_first(args_api_key, env) ==
    IF env_var(env).t = "Ok" THEN env_var(env).v
    ELSE IF args_api_key = None THEN "" ELSE args_api_key.v

resolve_api_key(args_api_key, env) ==
    IF args_api_key = None THEN unwrap_or(env_var(env), "") ELSE args_api_key.v

resolve_model(args_model, env) ==
    IF args_model = None THEN unwrap_or(env_var(env), DEFAULT_MODEL) ELSE args_model.v

\* {:?} of a String: the text between double quotes (the texts used hold no
\* character that is escaped).
fmt_Debug_str(text) == "\"" \o text \o "\""

fmt_Debug_all_fields(self) ==
    "Client { api_key: " \o fmt_Debug_str(self.api_key)
        \o ", model: " \o fmt_Debug_str(self.model) \o " }"

fmt_Debug(self) == "Client { model: " \o fmt_Debug_str(self.model) \o " }"

FlagsOf(values) == {None} \cup {Some(v) : v \in values \cup {""}}

EnvsOf(values) == {Unset, NotUnicode} \cup {Set(v) : v \in values \cup {""}}

InitConfig ==
    /\ DispatcherUnused
    /\ OutsideUnused

\* The two resolutions of one invocation.
call_resolve ==
    /\ io.fn = "none"
    /\ \E args_api_key \in FlagsOf({"key-A"}), env_api_key \in EnvsOf({"key-B"}),
          args_model \in FlagsOf({"my-model"}), env_model \in EnvsOf({"env-model"}) :
          io' = [fn |-> "resolve",
                 args |-> [api_key |-> args_api_key, model |-> args_model],
                 env |-> [GETIMG_API_KEY |-> env_api_key, GETIMG_MODEL |-> env_model],
                 api_key |-> resolve_api_key(args_api_key, env_api_key),
                 model |-> resolve_model(args_model, env_model)]
    /\ UNCHANGED <<dispatcher_vars, fs, cli, log, exit_code, runs>>

\* Two clients are built and each is printed with {:?}.
call_fmt_Debug ==
    /\ io.fn = "none"
    /\ \E k1 \in ApiKeys, k2 \in ApiKeys, m1 \in Models, m2 \in Models :
          io' = [fn |-> "fmt",
                 a |-> Client_new(k1, m1),
                 b |-> Client_new(k2, m2),
                 out_a |-> fmt_Debug(Client_new(k1, m1)),
                 out_b |-> fmt_Debug(Client_new(k2, m2))]
    /\ UNCHANGED <<dispatcher_vars, fs, cli, log, exit_code, runs>>

NextConfig == call_resolve \/ call_fmt_Debug

SpecConfig == InitConfig /\ [][NextConfig]_vars

Resolved == io.fn = "resolve"

\* The precedence rule for one setting: the flag when given, else the value
\* of the variable when it counts as set, else the default.
ByPrecedence(resolved, flag, env, isSet, default) ==
    IF flag # None THEN resolved = flag.v
    ELSE IF isSet THEN env.t = "Set" /\ resolved = env.v
    ELSE resolved = default

C16_DebugHidesApiKey ==
    io.fn = "fmt" =>
        /\ io.a.model = io.b.model => io.out_a = io.out_b
        /\ io.out_a = "Client { model: \"" \o io.a.model \o "\" }"

C16_Witness ==
    /\ io.fn = "fmt"
    /\ io.a.model = io.b.model
    /\ io.a.api_key # io.b.api_key
    /\ io.out_a = io.out_b

\* A body that serde turns into a ToImageResponse: an object with a string
\* image and a well-typed seed and cost, or an array of these three in order.
FitsToImageResponse(body) ==
    \/ HasStringImage(body) /\ WellTypedSeedAndCost(body.v)
    \/ /\ body.t = "arr"
       /\ Len(body.v) = 3
       /\ LET o == [image |-> body.v[1], seed |-> body.v[2], cost |-> body.v[3]]
          IN  HasStringImage(JObj(o)) /\ WellTypedSeedAndCost(o)

MaxRuns == 2

ImagePaths == {"in.png", "missing.png"}

MaskPaths == {"mask.png", "missing.png"}

OutputFormats == {"png", "jpeg"}

Commands ==
    {[name |-> "t2i", output_format |-> o] : o \in OutputFormats}
    \cup {[name |-> n, image |-> p, output_format |-> o] :
             n \in {"edit", "i2i", "cnet"}, p \in ImagePaths, o \in OutputFormats}
    \cup {[name |-> "paint", image |-> p, mask_image |-> q, output_format |-> o] :
             p \in ImagePaths, q \in MaskPaths, o \in OutputFormats}

\* The replies the service gives the front-end.
CliReplies ==
    {[status |-> 200, body |-> SuccessBody],
     [status |-> 200, body |-> NullsBody],
     [status |-> 200, body |-> NotBase64ImageBody],
     [status |-> 401, body |-> ErrorBody]}

progress_message(name) ==
    CASE name = "edit" -> "Generating edited image..."
      [] name = "paint" -> "Repainting image..."
      [] name = "t2i" -> "Generating image from text..."
      [] name = "i2i" -> "Generating image from image..."
      [] name = "cnet" -> "Generating image using ControlNet..."

success_message(name) ==
    IF name = "paint" THEN "Image repainted and stored successfully."
    ELSE "Edited image generated and stored successfully."

\* File names in which paint has a file of its own for jpeg.
filename_by_format(cmd) ==
    CASE cmd.name = "edit" -> "edited_image.png"
      [] cmd.name = "paint" ->
            IF cmd.output_format = "jpeg" THEN "i2i.png" ELSE "edited_image.png"
      [] cmd.name = "t2i" -> "t2i.png"
      [] cmd.name = "i2i" -> "i2i.png"
      [] cmd.name = "cnet" -> "cnet.png"

\* The second argument of save_image in each arm of the match.
filename(cmd) ==
    CASE cmd.name \in {"edit", "paint"} -> "edited_image.png"
      [] cmd.name = "t2i" -> "t2i.png"
      [] cmd.name = "i2i" -> "i2i.png"
      [] cmd.name = "cnet" -> "cnet.png"

\* Display of the error main returned (the texts of reqwest's and base64's
\* errors are shortened to their first words).
Display(e) ==
    CASE e.kind = "Io" /\ e.os = "NotFound" -> "No such file or directory (os error 2)"
      [] e.kind = "Io" /\ e.os = "PermissionDenied" -> "Permission denied (os error 13)"
      [] e.kind = "Io" /\ e.os = "StorageFull" -> "No space left on device (os error 28)"
      [] e.kind = "Base64" -> "Invalid padding"
      [] e.kind = "Request" -> "error sending request"
      [] OTHER -> "error decoding response body"

CliPaths ==
    ImagePaths \cup MaskPaths \cup {"edited_image.png", "t2i.png", "i2i.png", "cnet.png"}

InitCli ==
    /\ DispatcherUnused
    /\ fs = [p \in CliPaths |->
                CASE p = "in.png" -> File(<<105, 109, 103>>)
                  [] p = "mask.png" -> File(<<109, 97, 115, 107>>)
                  [] OTHER -> Absent]
    /\ io = NoIo
    /\ cli = NoProcess
    /\ log = <<>>
    /\ exit_code = 0
    /\ runs = 0

\* Cli::parse(), the two resolutions, Client::new and the progress line.
main_begin ==
    /\ cli.pc \in {"none", "exited"}
    /\ runs < MaxRuns
    /\ \E cmd \in Commands, args_model \in {None, Some("my-model")} :
          LET api_key == resolve_api_key(None, Set("key-B"))
              model == resolve_model(args_model, Unset)
          IN  /\ new_args' = [api_key |-> api_key, model |-> model]
              /\ client' = [i \in Instances |->
                               IF i = 1 THEN Client_new(api_key, model) ELSE NoClient]
              /\ cli' = [pc |-> "args", cmd |-> cmd, image |-> None, mask |-> None,
                         err |-> None, found |-> fs[filename(cmd)]]
              /\ log' = <<Event("stdout", progress_message(cmd.name))>>
    /\ borrow' = [i \in Instances |-> 0]
    /\ pc' = [t \in Tasks |-> "idle"]
    /\ call' = [t \in Tasks |-> NoCall]
    /\ request' = [t \in Tasks |-> NoRequest]
    /\ posts' = [t \in Tasks |-> 0]
    /\ response' = [t \in Tasks |-> NoResponse]
    /\ result' = [t \in Tasks |-> NoResult]
    /\ io' = NoIo
    /\ exit_code' = 0
    /\ runs' = runs + 1
    /\ UNCHANGED fs

\* What `?` does with the return value of a utility: the value, or main
\* returns the error.
try_load(field) ==
    cli' = IF io'.ret.t = "Ok"
           THEN [cli EXCEPT ![field] = Some(io'.ret.v)]
           ELSE [cli EXCEPT !.pc = "failed", !.err = Some(io'.ret.e)]

\* &load_and_encode_image(&cmd.image)?
main_load_image ==
    /\ cli.pc = "args"
    /\ cli.cmd.name # "t2i"
    /\ cli.image = None
    /\ load_and_encode_image(cli.cmd.image)
    /\ try_load("image")
    /\ UNCHANGED <<dispatcher_vars, exit_code, runs>>

\* A load of the mask whose error is dropped, the mask being left empty.
main_load_mask_unwrap_or_default ==
    /\ cli.pc = "args"
    /\ cli.cmd.name = "paint"
    /\ cli.image # None
    /\ cli.mask = None
    /\ load_and_encode_image(cli.cmd.mask_image)
    /\ cli' = [cli EXCEPT !.mask = Some(IF io'.ret.t = "Ok" THEN io'.ret.v ELSE "")]
    /\ UNCHANGED <<dispatcher_vars, exit_code, runs>>

\* &load_and_encode_image(&cmd.mask_image)?, after the image
main_load_mask ==
    /\ cli.pc = "args"
    /\ cli.cmd.name = "paint"
    /\ cli.image # None
    /\ cli.mask = None
    /\ load_and_encode_image(cli.cmd.mask_image)
    /\ try_load("mask")
    /\ UNCHANGED <<dispatcher_vars, exit_code, runs>>

\* The arguments of the call are evaluated: every input image is loaded.
ArgsEvaluated ==
    /\ cli.pc = "args"
    /\ cli.cmd.name # "t2i" => cli.image # None
    /\ cli.cmd.name = "paint" => cli.mask # None

\* The flags that do not differ between invocations.
cmd_prompt == Str("a crab on the beach")

cmd_negative_prompt == Str("blurry")

EditArgs ==
    [prompt |-> cmd_prompt, negative_prompt |-> Some(cmd_negative_prompt),
     image_data |-> Str(cli.image.v), image_guidance |-> F64(15, -1),
     steps |-> Usize(25), guidance |-> F64(75, -1), seed |-> Usize(54),
     scheduler |-> Str("ddim"), output_format |-> Str(cli.cmd.output_format)]

RepaintArgs ==
    [prompt |-> cmd_prompt, negative_prompt |-> Some(cmd_negative_prompt),
     image_data |-> Str(cli.image.v), mask_image_data |-> Str(cli.mask.v),
     strength |-> Some(F64(5, -1)), width |-> Usize(1024), height |-> Usize(512),
     steps |-> Usize(25), guidance |-> F64(75, -1), seed |-> Usize(512),
     scheduler |-> Str("euler"), output_format |-> Str(cli.cmd.output_format)]

TextToImageArgs ==
    [prompt |-> cmd_prompt, width |-> Usize(1024), height |-> Usize(512),
     steps |-> Usize(4), output_format |-> Str(cli.cmd.output_format),
     negative_prompt |-> Some(cmd_negative_prompt), seed |-> Some(Usize(512))]

ImageToImageArgs ==
    [prompt |-> cmd_prompt, image_data |-> Str(cli.image.v), steps |-> Usize(4),
     seed |-> Usize(512), output_format |-> Str(cli.cmd.output_format),
     negative_prompt |-> Some(cmd_negative_prompt), strength |-> Some(F64(5, -1))]

ControlNetArgs ==
    [controlnet |-> Str("softedge-1.1"), prompt |-> cmd_prompt,
     negative_prompt |-> cmd_negative_prompt, image |-> Str(cli.image.v),
     strength |-> F64(10, -1), width |-> Usize(1024), height |-> Usize(512),
     steps |-> Usize(25), guidance |-> F64(75, -1), seed |-> Usize(512),
     scheduler |-> Str("euler"), output_format |-> Str(cli.cmd.output_format)]

\* match args.cmd: the method of the subcommand is called on getimg_client.
main_call ==
    /\ ArgsEvaluated
    /\ \/ /\ cli.cmd.name = "edit"
          /\ Client_generate_edited_image(1, 1, EditArgs)
          /\ log' = Append(log, Event("call", "generate_edited_image"))
       \/ /\ cli.cmd.name = "paint"
          /\ Client_generate_repainted_image(1, 1, RepaintArgs)
          /\ log' = Append(log, Event("call", "generate_repainted_image"))
       \/ /\ cli.cmd.name = "t2i"
          /\ Client_generate_image_from_text(1, 1, TextToImageArgs)
          /\ log' = Append(log, Event("call", "generate_image_from_text"))
       \/ /\ cli.cmd.name = "i2i"
          /\ Client_generate_image_from_image(1, 1, ImageToImageArgs)
          /\ log' = Append(log, Event("call", "generate_image_from_image"))
       \/ /\ cli.cmd.name = "cnet"
          /\ Client_generate_image_using_controlnet(1, 1, ControlNetArgs)
          /\ log' = Append(log, Event("call", "generate_image_using_controlnet"))
    /\ cli' = [cli EXCEPT !.pc = "await", !.image = None, !.mask = None]
    /\ UNCHANGED <<fs, io, exit_code, runs>>

\* The call's two awaits, with the service's replies.
main_send_await ==
    /\ cli.pc = "await"
    /\ send_await(1)
    /\ pc'[1] = "json" => response'[1] \in CliReplies
    /\ UNCHANGED outside_vars

main_json_await ==
    /\ cli.pc = "await"
    /\ json_await(1)
    /\ UNCHANGED outside_vars

\* An `.await?` that goes on to the success line without saving.
main_await_no_save ==
    /\ cli.pc = "await"
    /\ pc[1] = "idle"
    /\ cli' = IF result[1].t = "Ok"
              THEN [cli EXCEPT !.pc = "saved"]
              ELSE [cli EXCEPT !.pc = "failed", !.err = Some(result[1].e)]
    /\ UNCHANGED <<dispatcher_vars, fs, io, log, exit_code, runs>>

\* `.await?`: the result of the call, or main returns its error.
main_await ==
    /\ cli.pc = "await"
    /\ pc[1] = "idle"
    /\ cli' = IF result[1].t = "Ok"
              THEN [cli EXCEPT !.pc = "save"]
              ELSE [cli EXCEPT !.pc = "failed", !.err = Some(result[1].e)]
    /\ UNCHANGED <<dispatcher_vars, fs, io, log, exit_code, runs>>

\* save_image(&result.image, "<file of the subcommand>")?
main_save ==
    /\ cli.pc = "save"
    /\ save_image(result[1].v.image, filename(cli.cmd))
    /\ cli' = IF io'.ret.t = "Ok"
              THEN [cli EXCEPT !.pc = "saved"]
              ELSE [cli EXCEPT !.pc = "failed", !.err = Some(io'.ret.e)]
    /\ UNCHANGED <<dispatcher_vars, exit_code, runs>>

\* The success line, then Ok(()) from main: status 0.
main_success ==
    /\ cli.pc = "saved"
    /\ log' = Append(log, Event("stdout", success_message(cli.cmd.name)))
    /\ cli' = [cli EXCEPT !.pc = "exited"]
    /\ exit_code' = 0
    /\ UNCHANGED <<dispatcher_vars, fs, io, runs>>

\* An error that is reported and leaves status 0.
main_exit_failure_status_zero ==
    /\ cli.pc = "failed"
    /\ log' = Append(log, Event("stderr", "Error: " \o Display(cli.err.v)))
    /\ cli' = [cli EXCEPT !.pc = "exited"]
    /\ exit_code' = 0
    /\ UNCHANGED <<dispatcher_vars, fs, io, runs>>

\* main returned Err(e): the runtime prints it with {:?} on stderr, status 1.
main_exit_failure ==
    /\ cli.pc = "failed"
    /\ log' = Append(log, Event("stderr", "Error: " \o Display(cli.err.v)))
    /\ cli' = [cli EXCEPT !.pc = "exited"]
    /\ exit_code' = 1
    /\ UNCHANGED <<dispatcher_vars, fs, io, runs>>

NextCli ==
    \/ main_begin
    \/ main_load_image
    \/ main_load_mask
    \/ main_call
    \/ main_send_await
    \/ main_json_await
    \/ main_await
    \/ main_save
    \/ main_success
    \/ main_exit_failure

SpecCli == InitCli /\ [][NextCli]_vars

Exited == cli.pc = "exited"

Succeeded == Exited /\ cli.err = None

Failed == Exited /\ cli.err # None

Contains(text, part) ==
    \E k \in 1..(Len(text) - Len(part) + 1) : SubSeq(text, k, k + Len(part) - 1) = part

Events(chs) == SelectSeq(log, LAMBDA e : e.ch \in chs)

IsPrefix(a, b) == Len(a) <= Len(b) /\ a = SubSeq(b, 1, Len(a))

\* The method that corresponds to each subcommand.
ClaimedMethod(name) ==
    CASE name = "edit" -> "generate_edited_image"
      [] name = "paint" -> "generate_repainted_image"
      [] name = "t2i" -> "generate_image_from_text"
      [] name = "i2i" -> "generate_image_from_image"
      [] name = "cnet" -> "generate_image_using_controlnet"

\* The steps of a whole invocation, in the order claimed: progress line, call,
\* file written (with save_image's own line), success line.
ClaimedSteps(name) ==
    <<"stdout", "call " \o ClaimedMethod(name), "create", "stdout", "stdout">>

Step(e) == IF e.ch = "call" THEN "call " \o e.text ELSE e.ch

StepsSoFar ==
    LET seen == Events({"stdout", "call", "create"})
    IN  [k \in 1..Len(seen) |-> Step(seen[k])]

\* C14: an invocation calls one method, the one of its subcommand, and its
\* steps come in the order progress line, call, image decoded and written,
\* success line: at any moment the steps so far are the first steps of that
\* order, no invocation makes a second call or a second POST, and an
\* invocation that succeeds has made all of them.
C14_OneCallInOrder ==
    cli.pc # "none" =>
        /\ IsPrefix(StepsSoFar, ClaimedSteps(cli.cmd.name))
        /\ log[1] = Event("stdout", progress_message(cli.cmd.name))
        /\ posts[1] <= 1 /\ posts[2] = 0
        /\ Succeeded =>
              /\ StepsSoFar = ClaimedSteps(cli.cmd.name)
              /\ posts[1] = 1
              /\ call[1].op # "none"
              /\ log[Len(log)] = Event("stdout", success_message(cli.cmd.name))
              /\ fs[filename(cli.cmd)] = File(decode(result[1].v.image).v)

C14_Witness ==
    /\ Succeeded
    /\ cli.cmd.name = "cnet"
    /\ call[1].op = "ControlNet"
    /\ Len(log) = 6
    /\ log[3] = Event("call", "generate_image_using_controlnet")
    /\ log[4] = Event("create", "cnet.png")

\* The failure happened while the output file was being written.
WriteCutShort == cli.err.v.kind = "Io" /\ cli.err.v.os = "StorageFull"

\* C15: an invocation in which a step failed ends with a non-zero status and
\* the error as the last thing on stderr; it has printed no success line, made
\* at most one call and one POST, read no input twice, and left the output
\* file as it found it (a write that the system cut short leaves the part of
\* the returned image that was written, never another image).
C15_FailureIsReported ==
    Failed =>
          /\ exit_code # 0
          /\ Events({"stderr"}) = <<Event("stderr", "Error: " \o Display(cli.err.v))>>
          /\ log[Len(log)].ch = "stderr"
          /\ \A k \in 1..Len(log) : log[k].text # success_message(cli.cmd.name)
          /\ Len(Events({"call"})) <= 1 /\ posts[1] <= 1
          /\ Len(Events({"open"})) <= 2
          /\ IF WriteCutShort
             THEN /\ result[1].t = "Ok"
                  /\ fs[filename(cli.cmd)].t = "File"
                  /\ IsPrefix(fs[filename(cli.cmd)].bytes, decode(result[1].v.image).v)
             ELSE /\ Events({"create"}) = <<>>
                  /\ fs[filename(cli.cmd)] = cli.found

C15_Witness ==
    /\ Failed
    /\ cli.err = Some([kind |-> "Base64"])
    /\ result[1].t = "Ok"
    /\ exit_code = 1
    /\ log[Len(log)] = Event("stderr", "Error: Invalid padding")

\* The path of the file the failed utility call was about.
FailedPath == IF io.fn = "save_image" THEN io.filename ELSE io.image_path

\* C17: when reading an input file or writing the output file fails, the
\* error on stderr contains the path of that file.
C17_IoErrorNamesThePath ==
    (Failed /\ cli.err.v.kind = "Io") => Contains(log[Len(log)].text, FailedPath)

\* C19: the input images are read before the request is sent: a call is made
\* only after the image (and for paint the image, then the mask) was opened,
\* and when a read fails the invocation sends no request and writes no file.
C19_InputsReadBeforeRequest ==
    /\ Events({"call"}) # <<>> =>
          /\ Events({"open", "call"})[Len(Events({"open", "call"}))].ch = "call"
          /\ Events({"open"}) =
                CASE cli.cmd.name = "t2i" -> <<>>
                  [] cli.cmd.name = "paint" ->
                        <<Event("open", cli.cmd.image), Event("open", cli.cmd.mask_image)>>
                  [] OTHER -> <<Event("open", cli.cmd.image)>>
    /\ (io.fn = "load_and_encode_image" /\ io.ret.t = "Err") =>
          /\ posts[1] = 0
          /\ pc[1] = "idle" /\ call[1] = NoCall /\ request[1] = NoRequest
          /\ Events({"call", "create"}) = <<>>
          /\ fs[filename(cli.cmd)] = cli.found

C19_Witness ==
    /\ Failed
    /\ cli.cmd.name = "paint"
    /\ cli.cmd.image = "in.png"
    /\ cli.cmd.mask_image = "missing.png"
    /\ io.ret.t = "Err"
    /\ Events({"open"}) = <<Event("open", "in.png"), Event("open", "missing.png")>>
    /\ posts[1] = 0

\* The output file of each subcommand.
ClaimedFile(name) ==
    CASE name \in {"edit", "paint"} -> "edited_image.png"
      [] name = "t2i" -> "t2i.png"
      [] name = "i2i" -> "i2i.png"
      [] name = "cnet" -> "cnet.png"

\* C20: the file an invocation writes is the one of its subcommand, whatever
\* the output_format and the other flags: no step changes another file, and a
\* successful edit or paint leaves in edited_image.png the image it was given
\* and nothing of what the file held before.
C20_FileFixedBySubcommand ==
    /\ [][\A p \in DOMAIN fs : fs'[p] # fs[p] => p = ClaimedFile(cli.cmd.name)]_vars
    /\ [](cli.pc # "none" =>
             \A k \in 1..Len(log) :
                 log[k].ch = "create" => log[k].text = ClaimedFile(cli.cmd.name))
    /\ []((Succeeded /\ cli.cmd.name \in {"edit", "paint"}) =>
             fs["edited_image.png"] = File(decode(result[1].v.image).v))

C20_Witness ==
    /\ runs = 2
    /\ Succeeded
    /\ cli.cmd.name = "paint"
    /\ cli.cmd.output_format = "jpeg"
    /\ cli.found = File(<<65>>)
    /\ fs["edited_image.png"] = File(<<66>>)
    /\ fs["t2i.png"] = Absent

====
